---- MODULE Spec2Model ----
(***************************************************************************)
(* Mortuary billing: the charge recalculation job (updateMortuaryCharges)  *)
(* and the controllers that feed and read it (deceased, extra charges,     *)
(* payments, financial summaries); and, each under a specification of its *)
(* own, createSystemInvoice, assignCoffin, the print queue and the         *)
(* notification poll.                                                      *)
(*                                                                         *)
(* Time.  One clock unit is one second.  An "instant" is a number of       *)
(* seconds of absolute (UTC) time; a "wall" value is the reading           *)
(* 'YYYY-MM-DD HH:MM:SS' of some zone, as the number of seconds it shows.  *)
(* The database stores wall values without a zone.                         *)
(*                                                                         *)
(* Money.  The code multiplies fractional days by a daily rate.  To keep   *)
(* that exact in integers every money value of the model is the currency   *)
(* amount multiplied by DayLen, so `seconds * rate` is the storage charge  *)
(* and Money(x) is the currency amount x.  Arithmetic is exact: binary     *)
(* floating point rounding and DECIMAL column rounding are not modelled.   *)
(***************************************************************************)
EXTENDS Integers, Sequences, FiniteSets, TLC

\* ------------------------------------------------------------------ bounds
MaxCases == 1
MaxExtra == 1
MaxPayments == 1
MaxRuns == 2
MaxHalfDays == 4
MaxSeconds == 1
MaxEdits == 1
MaxCasesRun == 2
MaxDaysRun == 1
MaxExtraInv == 2
MaxEditsInv == 2
MaxInvoices == 1
MaxPrintJobs == 5
StockOnHand == 1
MaxNotifications == 2
MaxNotifySeconds == 2

\* --------------------------------------------------------------- constants
\* const ms = 1000 * 60 * 60 * 24, in clock units of one second
DayLen == 60 * 60 * 24
HalfDay == DayLen \div 2
\* Africa/Nairobi is UTC+3 all year
KenyaOffset == 3 * 60 * 60
Money(x) == x * DayLen

NULLS == "NULL"
NULLN == << >>
Some(v) == <<v>>
Val(o) == o[1]

\* keys under which rows reference a case: the numeric deceased.id and the
\* string deceased.deceased_id; a numeric and a string key never compare equal
NumKey(c) == <<"id", c>>
StrKey(c) == <<"deceased_id", c>>

VARIABLES clock, serverTz, deceased, extra_charges, payments, charge_history,
          coffin_issue, runs, edits,
          passes, \* history variable: the instants of the runs of the job
                  \* since the last write by a request handler
          job     \* the run of the job in progress, case by case: its position
                  \* in the list it selected, the timestamp it took at the
                  \* start, and what became of the cases of the list

\* the AUTO_INCREMENT counter of extra_charges.id, and the runs of the job
\* that may be in flight at once (a timer run and the startup run, or two
\* timer runs), each in the steps its awaits separate
VARIABLES charge_seq, jobs

\* invoices and the createSystemInvoice request in flight
VARIABLES invoices, invoiceReq
invoiceVars == <<invoices, invoiceReq>>

\* the print service: printQueue and activeJobs of the source; the jobs whose
\* promise has not settled, the setImmediate(processQueue) callbacks not yet
\* run, and the number of jobs enqueued so far
VARIABLES printQueue, activeJobs, printing, immediates, job_seq,
          started, \* history variable: the jobs in the order they were started
          held     \* history variable: the jobs that found no free slot
printVars == <<printQueue, activeJobs, printing, immediates, job_seq, started, held>>

\* coffins.quantity of the coffin on offer, the rows of deceased_coffin, and
\* the assignCoffin requests in flight
VARIABLES coffins, deceased_coffin, assignReq
stockVars == <<coffins, deceased_coffin, assignReq>>

\* the notifications table, lastNotificationTime, the polls in flight, and
\* how often each row was emitted (history variable, counted up to 2)
VARIABLES notifications, lastNotificationTime, polls, emitted
notifyVars == <<notifications, lastNotificationTime, polls, emitted>>

\* the state outside the billing tables
serviceVars == <<invoiceVars, printVars, stockVars, notifyVars>>

\* the billing tables and the runs of the job
billingVars == <<clock, serverTz, deceased, extra_charges, payments, charge_history,
                 coffin_issue, runs, edits, passes, job, charge_seq, jobs>>

vars == <<billingVars, serviceVars>>

\* no run of the job in progress
JobIdle ==
  [pc |-> 0, now |-> 0, list |-> << >>, done |-> {}, failed |-> {}, fault |-> "none"]

\* the runs of the job that may overlap: node-cron starts a run every five
\* minutes whether or not the last one has returned, and the startup run is
\* started by its own timer
Runners == {1, 2}
\* seen and written are history fields: how many payment and extra-charge
\* rows the run read for the current case, and that number for each case the
\* run has written
RunnerIdle ==
  [pc |-> 0, phase |-> "idle", now |-> 0, list |-> << >>, at |-> 0,
   total |-> 0, balance |-> 0, seen |-> 0, written |-> {}]

\* no request of createSystemInvoice in flight
InvoiceIdle == [pc |-> 0, c |-> 0, items |-> << >>]

\* the assignCoffin requests that may be in flight at once, and one at rest
Requests == {1, 2}
\* pc: 0 not received, 1 after the SELECT of the coffin, 2 after the INSERT
\* of the assignment, 3 answered 201, 4 answered 400 (out of stock)
AssignIdle == [pc |-> 0, c |-> 0, quantity |-> 0]

\* the polls that may be in flight at once: setInterval starts one every five
\* seconds whether or not the last one has returned
Polls == {1, 2}
\* pc: 0 not running, 1 query sent, 2 query executed by the database
PollIdle == [pc |-> 0, timestamp |-> 0, rows |-> << >>]

\* the state of the services before their first request
InvoicesEmpty == invoices = << >> /\ invoiceReq = InvoiceIdle
PrinterIdle ==
  /\ printQueue = << >> /\ activeJobs = 0 /\ printing = {} /\ immediates = 0
  /\ job_seq = 0 /\ started = << >> /\ held = {}
StockIdle(quantity) ==
  /\ coffins = quantity /\ deceased_coffin = << >>
  /\ assignReq = [r \in Requests |-> AssignIdle]
\* let lastNotificationTime = new Date(0)
NotifierIdle ==
  /\ notifications = << >> /\ lastNotificationTime = 0
  /\ polls = [p \in Polls |-> PollIdle] /\ emitted = << >>
ServicesIdle == InvoicesEmpty /\ PrinterIdle /\ StockIdle(0) /\ NotifierIdle

\* the billing tables before the first request
LedgerEmpty ==
  /\ clock = 0
  /\ deceased = << >>
  /\ extra_charges = << >>
  /\ payments = << >>
  /\ charge_history = << >>
  /\ runs = 0
  /\ edits = 0
  /\ passes = << >>
  /\ job = JobIdle
  /\ charge_seq = 0
  /\ jobs = [r \in Runners |-> RunnerIdle]

\* ------------------------------------------------------------ time helpers
\* getKenyaTimeISO: luxon now in zone Africa/Nairobi, formatted without zone
getKenyaTimeISO(t) == t + KenyaOffset

\* new Date('YYYY-MM-DD HH:MM:SS'): a zone-less string is read in the zone of
\* the server process
ParseLocal(w) == w - serverTz

\* Date.prototype.toISOString(): the UTC reading of an instant
toISOString(t) == t

\* getKenyanDateTime: the Nairobi reading of now, parsed back as a local
\* string by new Date(dt), then printed in UTC
getKenyanDateTime(t) == toISOString(ParseLocal(t + KenyaOffset))

\* a variant that counts whole days only, as Math.floor(diff / ms) would
getWholeDays(start, end) ==
  LET diff == end - start IN IF diff > 0 THEN (diff \div DayLen) * DayLen ELSE 0

\* getFractionalDays, in units of 1/DayLen day (not truncated to whole days)
getFractionalDays(start, end) ==
  LET diff == end - start IN IF diff > 0 THEN diff ELSE 0

\* ----------------------------------------------------------- sum helpers
RECURSIVE SumAmounts(_)
SumAmounts(rows) ==
  IF rows = << >> THEN 0 ELSE Head(rows).amount + SumAmounts(Tail(rows))

\* ------------------------------------------------- updateMortuaryCharges
\* WHERE created_at IS NOT NULL AND (status IS NULL OR status != 'Complete')
Eligible(d) == d.created_at # NULLN /\ (d.status = NULLS \/ d.status # "Complete")

\* const cur = currency || 'KES'
Cur(d) == IF d.currency = NULLS THEN "KES" ELSE d.currency

\* baseRate: USD uses parseFloat(usd_charge_rate || 130), else 5000 for
\* premium and 3000 for every other category
BaseRate(d) ==
  IF Cur(d) = "USD"
    THEN (IF d.usd_charge_rate = NULLN \/ Val(d.usd_charge_rate) = 0
            THEN 130 ELSE Val(d.usd_charge_rate))
    ELSE IF d.rate_category = "premium" THEN 5000 ELSE 3000

\* admissionDate = date_admitted ? new Date(date_admitted) : new Date(created_at)
AdmissionDate(d) ==
  IF d.date_admitted # NULLN THEN ParseLocal(Val(d.date_admitted))
  ELSE ParseLocal(Val(d.created_at))

\* totalStorageCharge = getFractionalDays(admissionDate, new Date()) * baseRate
TotalStorageCharge(d, now) == getFractionalDays(AdmissionDate(d), now) * BaseRate(d)

\* lastUpdate = last_charge_update ? new Date(last_charge_update) : new Date(created_at)
LastUpdate(d) ==
  IF d.last_charge_update # NULLN THEN ParseLocal(Val(d.last_charge_update))
  ELSE ParseLocal(Val(d.created_at))

\* incrementalCharge = getFractionalDays(lastUpdate, new Date()) * baseRate
IncrementalCharge(d, now) == getFractionalDays(LastUpdate(d), now) * BaseRate(d)

\* if (incrementalCharge > 0.01): 0.01 currency units, in money units
LogThreshold == DayLen \div 100
Significant(inc) == inc > LogThreshold

\* the row saveChargeHistory inserts
HistoryEntry(c, d, now) ==
  [deceased_id |-> StrKey(c), charge_type |-> "daily_storage",
   amount |-> IncrementalCharge(d, now), currency |-> Cur(d)]

\* parseFloat of a price column: a NULL column gives NaN.  NaN is not a number
\* of the model: PriceIsNaN says when a row's price is NaN, and the number
\* standing in for it here is never stored (see processCase)
parseFloat(o) == IF o = NULLN THEN 0 ELSE Val(o)

\* the price column the loop parses for this row is NULL
PriceIsNaN(row, cur) ==
  \/ row.coffin_currency = "KES" /\ row.exact_price = NULLN
  \/ row.coffin_currency = "USD" /\ row.price_usd = NULLN

\* a variant that charges the price in the coffin's own currency
CoffinPriceUnconverted(row, cur) ==
  (IF row.coffin_currency = "KES" THEN parseFloat(row.exact_price)
   ELSE IF row.coffin_currency = "USD" THEN parseFloat(row.price_usd)
   ELSE 0) * (IF row.quantity = 0 THEN 1 ELSE row.quantity)

\* one coffin row's price in the case's currency, times parseInt(quantity || 1);
\* exchange_rate || 130: an unset (NULL or 0) rate is replaced by 130
CoffinPrice(row, cur) ==
  LET rate == IF row.exchange_rate = 0 THEN 130 ELSE row.exchange_rate
      qty == IF row.quantity = 0 THEN 1 ELSE row.quantity
      price ==
        IF row.coffin_currency = "KES"
          THEN (IF cur = "KES" THEN parseFloat(row.exact_price)
                ELSE parseFloat(row.exact_price) \div rate)
        ELSE IF row.coffin_currency = "USD"
          THEN (IF cur = "USD" THEN parseFloat(row.price_usd)
                ELSE parseFloat(row.price_usd) * rate)
        ELSE 0
  IN price * qty

\* FROM coffin_issue ci JOIN coffins c ... WHERE ci.rfid = deceased_id
CoffinRows(c) == SelectSeq(coffin_issue, LAMBDA r : r.rfid = StrKey(c))

RECURSIVE CoffinCharges(_, _)
CoffinCharges(rows, cur) ==
  IF rows = << >> THEN 0
  ELSE CoffinPrice(Head(rows), cur) + CoffinCharges(Tail(rows), cur)

\* a variant of the status filter that keeps every row
AnyStatus(e) == e.status = e.status

\* SELECT amount FROM extra_charges WHERE deceased_id = ? AND status != 'Cancelled'
NotCancelled(e) == e.status # "Cancelled"
ExtraRows(c) ==
  SelectSeq(extra_charges, LAMBDA e : e.deceased_id = StrKey(c) /\ NotCancelled(e))

\* SELECT amount FROM payments WHERE deceased_id = ?  (the string deceased_id)
PaymentsRows(c) == SelectSeq(payments, LAMBDA p : p.deceased_id = StrKey(c))

\* const embalming = parseFloat(embalming_cost || 0)
Embalming(d) == IF d.embalming_cost = NULLN THEN 0 ELSE Val(d.embalming_cost)

\* a variant that adds the increment and the components to the stored total
AccumulatedTotal(d, now, coffinRows, extraRows) ==
  (IF d.total_mortuary_charge = NULLN THEN 0 ELSE Val(d.total_mortuary_charge))
    + IncrementalCharge(d, now) + CoffinCharges(coffinRows, Cur(d))
    + SumAmounts(extraRows) + Embalming(d)

\* newTotal = totalStorageCharge + coffinCharges + extraCharges + embalming
NewTotal(d, now, coffinRows, extraRows) ==
  TotalStorageCharge(d, now) + CoffinCharges(coffinRows, Cur(d))
    + SumAmounts(extraRows) + Embalming(d)

\* balance = newTotal - totalPayments
NewBalance(newTotal, paymentsRows) == newTotal - SumAmounts(paymentsRows)

\* UPDATE deceased SET total_mortuary_charge, last_charge_update, balance
ReconcileRow(c, d, now, nowStr) ==
  LET newTotal == NewTotal(d, now, CoffinRows(c), ExtraRows(c)) IN
  [d EXCEPT !.total_mortuary_charge = Some(newTotal),
            !.last_charge_update = Some(nowStr),
            !.balance = Some(NewBalance(newTotal, PaymentsRows(c)))]

\* a variant that overwrites the table with the new rows
ReplaceRows(table, rows) == rows

\* INSERT INTO charge_history: the new rows go after the rows already there
InsertRows(table, rows) == table \o rows

\* the history rows one pass appends, in the order of the case list
RECURSIVE HistoryOfPass(_, _)
HistoryOfPass(c, now) ==
  IF c > Len(deceased) THEN << >>
  ELSE (IF Eligible(deceased[c]) /\ Significant(IncrementalCharge(deceased[c], now))
          THEN <<HistoryEntry(c, deceased[c], now)>> ELSE << >>)
       \o HistoryOfPass(c + 1, now)

\* one run of the job over every eligible case
updateMortuaryCharges ==
  /\ runs < MaxRuns
  /\ LET now == clock
         nowStr == getKenyanDateTime(clock) IN
     /\ deceased' = [c \in 1..Len(deceased) |->
                       IF Eligible(deceased[c])
                         THEN ReconcileRow(c, deceased[c], now, nowStr)
                         ELSE deceased[c]]
     /\ charge_history' = InsertRows(charge_history, HistoryOfPass(1, now))
  /\ runs' = runs + 1
  /\ passes' = Append(passes, clock)
  /\ UNCHANGED <<serviceVars, jobs, charge_seq, job, clock, serverTz, extra_charges, payments, coffin_issue, edits>>

\* ------------------------------------------------------------ controllers
\* columns of deceased that no handler writes (database defaults or values
\* entered outside these handlers): rate_category, currency, usd_charge_rate,
\* embalming_cost
Profiles ==
  { [rate_category |-> "standard", currency |-> "KES", usd_charge_rate |-> NULLN,
     embalming_cost |-> NULLN],
    [rate_category |-> "premium", currency |-> "KES", usd_charge_rate |-> NULLN,
     embalming_cost |-> Some(Money(1000))],
    [rate_category |-> NULLS, currency |-> NULLS, usd_charge_rate |-> NULLN,
     embalming_cost |-> NULLN],
    [rate_category |-> "premium", currency |-> "USD", usd_charge_rate |-> NULLN,
     embalming_cost |-> NULLN],
    [rate_category |-> "basic", currency |-> "USD", usd_charge_rate |-> Some(100),
     embalming_cost |-> NULLN] }

\* registerDeceased: date_admitted and created_at are getKenyaTimeISO()
Admit(limit, profiles) ==
  /\ Len(deceased) < limit
  /\ \E p \in profiles :
       deceased' = Append(deceased,
         [rate_category |-> p.rate_category, currency |-> p.currency,
          usd_charge_rate |-> p.usd_charge_rate,
          embalming_cost |-> p.embalming_cost,
          created_at |-> Some(getKenyaTimeISO(clock)),
          date_admitted |-> Some(getKenyaTimeISO(clock)),
          last_charge_update |-> NULLN, total_mortuary_charge |-> NULLN,
          balance |-> NULLN, status |-> NULLS])
  /\ passes' = << >>
  /\ UNCHANGED <<serviceVars, jobs, charge_seq, job, clock, serverTz, extra_charges, payments, charge_history,
                 coffin_issue, runs, edits>>

registerDeceased == Admit(MaxCases, Profiles)

\* request values; a field absent from the request body is UNDEF (strings)
\* or NULLN (numbers and dates)
UNDEF == "undefined"
StatusInputs == {"Complete"}
TotalInputs == {Money(0 - 5)}
AdmittedInputs == {getKenyaTimeISO(clock) + DayLen}

\* updateDeceasedRecord: addField for every field present in the body;
\* last_charge_update = new Date().toISOString() when total_mortuary_charge
\* is present
UpdateRecord(admittedInputs, totalInputs) ==
  /\ edits < MaxEdits
  /\ \E c \in 1..Len(deceased) :
     \E date_admitted \in {NULLN} \cup {Some(x) : x \in admittedInputs} :
     \E status \in {UNDEF} \cup StatusInputs :
     \E total_mortuary_charge \in {NULLN} \cup {Some(x) : x \in totalInputs} :
       /\ ~(date_admitted = NULLN /\ status = UNDEF /\ total_mortuary_charge = NULLN)
       /\ deceased' = [deceased EXCEPT ![c] =
            [@ EXCEPT
               !.date_admitted =
                  IF date_admitted = NULLN THEN @ ELSE date_admitted,
               !.status = IF status = UNDEF THEN @ ELSE status,
               !.total_mortuary_charge =
                  IF total_mortuary_charge = NULLN THEN @
                  ELSE total_mortuary_charge,
               !.last_charge_update =
                  IF total_mortuary_charge = NULLN THEN @
                  ELSE Some(toISOString(clock))]]
  /\ edits' = edits + 1
  /\ passes' = << >>
  /\ UNCHANGED <<serviceVars, jobs, charge_seq, job, clock, serverTz, extra_charges, payments, charge_history,
                 coffin_issue, runs>>

updateDeceasedRecord == UpdateRecord(AdmittedInputs, TotalInputs)

\* amounts a request may carry: parseFloat accepts any number, negative too
ExtraAmounts == {Money(500), Money(0 - 100)}
Statuses == {"Pending", "Paid", "Cancelled"}

\* addExtraCharge / createExtraCharge: INSERT INTO extra_charges under the
\* string deceased_id; status is left to the column default
AddCharge(limit) ==
  /\ Len(extra_charges) < limit
  /\ \E c \in 1..Len(deceased), amount \in ExtraAmounts :
       extra_charges' = Append(extra_charges,
         [id |-> charge_seq + 1, deceased_id |-> StrKey(c), amount |-> amount,
          status |-> "Pending"])
  /\ charge_seq' = charge_seq + 1
  /\ passes' = << >>
  /\ UNCHANGED <<serviceVars, jobs, job, clock, serverTz, deceased, payments, charge_history,
                 coffin_issue, runs, edits>>

addExtraCharge == AddCharge(MaxExtra)

\* updateExtraCharge: only the fields present (and truthy) are written, to
\* the row WHERE id = ?, whatever its status
EditCharge(limit) ==
  /\ edits < limit
  /\ \E i \in 1..Len(extra_charges) :
     \E amount \in {NULLN} \cup {Some(x) : x \in ExtraAmounts} :
     \E status \in {UNDEF} \cup Statuses :
       /\ ~(amount = NULLN /\ status = UNDEF)
       /\ extra_charges' = [extra_charges EXCEPT ![i] =
            [@ EXCEPT !.amount = IF amount = NULLN THEN @ ELSE Val(amount),
                      !.status = IF status = UNDEF THEN @ ELSE status]]
  /\ edits' = edits + 1
  /\ passes' = << >>
  /\ UNCHANGED <<serviceVars, jobs, charge_seq, job, clock, serverTz, deceased, payments, charge_history,
                 coffin_issue, runs>>

updateExtraCharge == EditCharge(MaxEdits)

\* deleteExtraCharge: DELETE FROM extra_charges WHERE id = ?
DeleteCharge(limit) ==
  /\ edits < limit
  /\ \E i \in 1..Len(extra_charges) :
       extra_charges' = SubSeq(extra_charges, 1, i - 1)
                          \o SubSeq(extra_charges, i + 1, Len(extra_charges))
  /\ edits' = edits + 1
  /\ passes' = << >>
  /\ UNCHANGED <<serviceVars, jobs, charge_seq, job, clock, serverTz, deceased, payments, charge_history,
                 coffin_issue, runs>>

deleteExtraCharge == DeleteCharge(MaxEdits)

\* createPayment: the row is stored under whatever deceased_id the request
\* carries, the numeric id or the string deceased_id; the amount only has to
\* be truthy, so a negative amount is stored too
PaymentAmounts == {Money(2000), Money(0 - 500)}
createPayment ==
  /\ Len(payments) < MaxPayments
  /\ \E c \in 1..Len(deceased), amount \in PaymentAmounts :
     \E key \in {NumKey(c), StrKey(c)} :
       payments' = Append(payments, [deceased_id |-> key, amount |-> amount])
  /\ passes' = << >>
  /\ UNCHANGED <<serviceVars, jobs, charge_seq, job, clock, serverTz, deceased, extra_charges, charge_history,
                 coffin_issue, runs, edits>>

\* ------------------------------------------------------------------ reads
\* getDeceasedFinancialDetails: payments by the numeric id, extra charges by
\* the string deceased_id, no status filter
getDeceasedFinancialDetails(c) ==
  LET pays == SelectSeq(payments, LAMBDA p : p.deceased_id = NumKey(c))
      extras == SelectSeq(extra_charges, LAMBDA e : e.deceased_id = StrKey(c))
      mortuary == IF deceased[c].total_mortuary_charge = NULLN THEN 0
                  ELSE Val(deceased[c].total_mortuary_charge)
      totalExtraCharges == SumAmounts(extras)
      totalPayments == SumAmounts(pays)
      totalCharges == mortuary + totalExtraCharges
  IN [mortuary_charges |-> mortuary, extra_charges |-> totalExtraCharges,
      total_charges |-> totalCharges, total_payments |-> totalPayments,
      balance |-> totalCharges - totalPayments]

RECURSIVE SumSet(_)
SumSet(S) == IF S = {} THEN 0 ELSE LET x == CHOOSE x \in S : TRUE IN x + SumSet(S \ {x})

\* getAllDeceasedWithFinancials: both joins are ON d.id = <row>.deceased_id,
\* and the sums are SUM(DISTINCT amount)
getAllDeceasedWithFinancials(c) ==
  LET pamounts == {payments[i].amount : i \in
                     {j \in 1..Len(payments) : payments[j].deceased_id = NumKey(c)}}
      eamounts == {extra_charges[i].amount : i \in
                     {j \in 1..Len(extra_charges) :
                        extra_charges[j].deceased_id = NumKey(c)}}
      mortuary == IF deceased[c].total_mortuary_charge = NULLN THEN 0
                  ELSE Val(deceased[c].total_mortuary_charge)
  IN [total_payments |-> SumSet(pamounts), total_extra_charges |-> SumSet(eamounts),
      total_charges |-> mortuary + SumSet(eamounts),
      balance |-> mortuary + SumSet(eamounts) - SumSet(pamounts)]

\* getDeceasedById financial_details: whole days since date_admitted times
\* 800 (or the usd rate), plus every extra charge, minus payments by the
\* string deceased_id
getDeceasedById(c) ==
  LET d == deceased[c]
      daysSpent == IF d.date_admitted = NULLN THEN 0
                   ELSE (clock - ParseLocal(Val(d.date_admitted))) \div DayLen
      rate == IF d.currency = "USD"
                THEN (IF d.usd_charge_rate = NULLN THEN 0 ELSE Val(d.usd_charge_rate))
                ELSE 800
      extras == SelectSeq(extra_charges, LAMBDA e : e.deceased_id = StrKey(c))
      pays == SelectSeq(payments, LAMBDA p : p.deceased_id = StrKey(c))
      coldRoomCharges == Money(daysSpent * rate)
      totalCharges == coldRoomCharges + SumAmounts(extras)
  IN [days_spent |-> daysSpent, cold_room_charges |-> coldRoomCharges,
      extra_charges |-> SumAmounts(extras), total_charges |-> totalCharges,
      total_payments |-> SumAmounts(pays),
      balance |-> totalCharges - SumAmounts(pays)]

\* ------------------------------------------------------------------ clock
\* the instants at which the model samples time: whole half days, and the
\* first seconds after the start
Instants ==
  {h * HalfDay : h \in 0..MaxHalfDays} \cup (1..MaxSeconds)

\* time passes to the next sampled instant
TickTo(instants) ==
  /\ \E t \in instants :
       /\ t > clock
       /\ \A u \in instants : u > clock => t <= u
       /\ clock' = t
  /\ UNCHANGED <<serviceVars, jobs, charge_seq, job, serverTz, deceased, extra_charges, payments, charge_history,
                 coffin_issue, runs, edits, passes>>

Tick == TickTo(Instants)

\* --------------------------------------------------------- specification
\* the zone of the server process: UTC (the node:18 image of the deployment
\* guide) or Africa/Nairobi
ServerZones == {0, KenyaOffset}

\* coffin_issue joined with coffins; no handler writes coffin_issue, so its
\* rows are given.  A coffin priced 1300 KES = 10 USD at rate 130, issued to
\* case 1 in quantity 2; every price of these tables is present.
CoffinTables ==
  { << >>,
    << [rfid |-> StrKey(1), coffin_currency |-> "KES",
        exact_price |-> Some(Money(1300)), price_usd |-> Some(Money(10)),
        exchange_rate |-> 130, quantity |-> 2] >> }

Init ==
  /\ clock = 0
  /\ serverTz \in ServerZones
  /\ deceased = << >>
  /\ extra_charges = << >>
  /\ payments = << >>
  /\ charge_history = << >>
  /\ coffin_issue \in CoffinTables
  /\ runs = 0
  /\ edits = 0
  /\ passes = << >>
  /\ job = JobIdle
  /\ charge_seq = 0
  /\ jobs = [r \in Runners |-> RunnerIdle]
  /\ ServicesIdle

Next ==
  \/ registerDeceased
  \/ updateDeceasedRecord
  \/ addExtraCharge
  \/ updateExtraCharge
  \/ deleteExtraCharge
  \/ createPayment
  \/ updateMortuaryCharges
  \/ Tick

Spec == Init /\ [][Next]_vars

\* ------------------------------------------ the job, one case at a time
\* The same job as updateMortuaryCharges above, in the steps the event loop
\* can interleave with requests: the SELECT of the eligible cases, then one
\* step per case of the list.  The whole loop sits in one try block, so the
\* first query that rejects ends the run.

\* what may go wrong while a case is processed: nothing, the INSERT of the
\* history row rejects, or a later query of the case rejects
Faults == {"none", "history", "later"}

\* parseFloat of a NULL price makes coffinCharges, newTotal and balance NaN
TotalIsNaN(rows, cur) == \E i \in 1..Len(rows) : PriceIsNaN(rows[i], cur)

RECURSIVE EligibleList(_)
EligibleList(c) ==
  IF c > Len(deceased) THEN << >>
  ELSE (IF Eligible(deceased[c]) THEN << [c |-> c, d |-> deceased[c]] >> ELSE << >>)
       \o EligibleList(c + 1)

\* const now = getKenyanDateTime(); const deceasedList = await safeQuery(...)
selectDeceasedList ==
  /\ job.pc = 0
  /\ runs < MaxRuns
  /\ LET list == EligibleList(1) IN
       job' = [pc |-> IF list = << >> THEN 0 ELSE 1,
               now |-> getKenyanDateTime(clock), list |-> list,
               done |-> {}, failed |-> {}, fault |-> "none"]
  /\ runs' = runs + 1
  /\ UNCHANGED <<serviceVars, jobs, charge_seq, clock, serverTz, deceased, extra_charges, payments,
                 charge_history, coffin_issue, edits, passes>>

\* one iteration of for (const d of deceasedList): d is the row as selected
\* at the start of the run, the coffin, extra-charge and payment rows are
\* read now, and the UPDATE sets three columns of the row.  A NaN total makes
\* the UPDATE reject (the column holds decimals only).
processCase ==
  /\ job.pc \in 1..Len(job.list)
  /\ \E fault \in Faults :
       LET c == job.list[job.pc].c
           d == job.list[job.pc].d
           now == clock
           logs == Significant(IncrementalCharge(d, now))
           coffinRows == CoffinRows(c)
           historyThrows == logs /\ fault = "history"
           nan == TotalIsNaN(coffinRows, Cur(d))
           laterThrows == nan \/ fault = "later"
           row == ReconcileRow(c, d, now, job.now)
       IN /\ fault = "history" => logs
          /\ charge_history' =
               IF logs /\ ~historyThrows
                 THEN InsertRows(charge_history, <<HistoryEntry(c, d, now)>>)
                 ELSE charge_history
          /\ deceased' =
               IF historyThrows \/ laterThrows THEN deceased
               ELSE [deceased EXCEPT ![c] =
                      [@ EXCEPT !.total_mortuary_charge = row.total_mortuary_charge,
                                !.last_charge_update = row.last_charge_update,
                                !.balance = row.balance]]
          /\ job' =
               IF historyThrows \/ laterThrows
                 THEN [job EXCEPT !.pc = 0, !.failed = @ \cup {c},
                                  !.fault = IF historyThrows THEN "history"
                                            ELSE IF nan THEN "NaN" ELSE "later"]
                 ELSE [job EXCEPT !.pc = IF job.pc = Len(job.list) THEN 0 ELSE @ + 1,
                                  !.done = @ \cup {c}]
  /\ UNCHANGED <<serviceVars, jobs, charge_seq, clock, serverTz, extra_charges, payments, coffin_issue, runs,
                 edits, passes>>

\* the cases of the runs below: one billed in KES, one billed in USD
ProfilesRun ==
  {p \in Profiles : p.rate_category = "premium" /\ p.embalming_cost = NULLN}
    \cup {p \in Profiles : p.rate_category = "standard"}

registerDeceasedRun == Admit(MaxCasesRun, ProfilesRun)

\* coffin_issue joined with coffins, as given rows: valid coffins in either
\* currency, a row whose price column is NULL, a row with a negative rate and
\* a row with no rate
KesCoffin ==
  [rfid |-> StrKey(1), coffin_currency |-> "KES", exact_price |-> Some(Money(1300)),
   price_usd |-> Some(Money(10)), exchange_rate |-> 130, quantity |-> 2]
UsdCoffin ==
  [rfid |-> StrKey(1), coffin_currency |-> "USD", exact_price |-> Some(Money(1300)),
   price_usd |-> Some(Money(10)), exchange_rate |-> 130, quantity |-> 1]
CoffinTablesRun ==
  { << >>, <<KesCoffin>>, <<UsdCoffin>>, <<KesCoffin, UsdCoffin>>,
    << [KesCoffin EXCEPT !.exact_price = NULLN] >>,
    << [UsdCoffin EXCEPT !.exchange_rate = 0 - 130] >>,
    << [KesCoffin EXCEPT !.exchange_rate = 0] >> }

\* the requests and the instants of the runs below: a record update that
\* carries the status only, and whole days
updateDeceasedStatusRun == UpdateRecord({}, {})
InstantsRun == {n * DayLen : n \in 0..MaxDaysRun}
TickRun == TickTo(InstantsRun)

InitRun ==
  /\ clock = 0
  /\ serverTz \in ServerZones
  /\ deceased = << >>
  /\ extra_charges = << >>
  /\ payments = << >>
  /\ charge_history = << >>
  /\ coffin_issue \in CoffinTablesRun
  /\ runs = 0
  /\ edits = 0
  /\ passes = << >>
  /\ job = JobIdle
  /\ charge_seq = 0
  /\ jobs = [r \in Runners |-> RunnerIdle]
  /\ ServicesIdle

NextRun ==
  \/ registerDeceasedRun
  \/ updateDeceasedStatusRun
  \/ selectDeceasedList
  \/ processCase
  \/ TickRun

SpecRun == InitRun /\ [][NextRun]_vars

\* ------------------------------------------ the job, one await at a time
\* The job again, in the steps its awaits separate, so that two runs, and
\* requests, interleave inside the processing of one case: the SELECT of the
\* list, the INSERT of the history row, the reads of the coffin, extra-charge
\* and payment rows, and the UPDATE of the case.  The database does not
\* fail in these runs.

\* const now = getKenyanDateTime(); const deceasedList = await safeQuery(...)
StartRun(r) ==
  /\ jobs[r].pc = 0
  /\ LET list == EligibleList(1) IN
       jobs' = [jobs EXCEPT ![r] =
         [RunnerIdle EXCEPT !.pc = IF list = << >> THEN 0 ELSE 1,
                            !.phase = IF list = << >> THEN "idle" ELSE "log",
                            !.now = getKenyanDateTime(clock),
                            !.list = list]]

\* a run started by the cron schedule or by the startup timer
startRun(r) ==
  /\ runs < MaxRuns
  /\ StartRun(r)
  /\ runs' = runs + 1
  /\ UNCHANGED <<serviceVars, charge_seq, job, clock, serverTz, deceased,
                 extra_charges, payments, charge_history, coffin_issue, edits,
                 passes>>

\* the storage charges of the case from the row selected at the start and
\* new Date(); then await saveChargeHistory(...) if the increment is significant
logCharge(r) ==
  /\ jobs[r].phase = "log"
  /\ LET c == jobs[r].list[jobs[r].pc].c
         d == jobs[r].list[jobs[r].pc].d
     IN /\ charge_history' =
             IF Significant(IncrementalCharge(d, clock))
               THEN InsertRows(charge_history, <<HistoryEntry(c, d, clock)>>)
               ELSE charge_history
        /\ jobs' = [jobs EXCEPT ![r].phase = "read", ![r].at = clock]
  /\ UNCHANGED <<serviceVars, charge_seq, job, clock, serverTz, deceased,
                 extra_charges, payments, coffin_issue, runs, edits, passes>>

\* the three SELECTs of the case (coffins, extra charges, payments) and the
\* totals computed from them
readSources(r) ==
  /\ jobs[r].phase = "read"
  /\ LET c == jobs[r].list[jobs[r].pc].c
         d == jobs[r].list[jobs[r].pc].d
         row == ReconcileRow(c, d, jobs[r].at, jobs[r].now)
     IN jobs' = [jobs EXCEPT ![r].phase = "write",
                             ![r].total = Val(row.total_mortuary_charge),
                             ![r].balance = Val(row.balance),
                             ![r].seen = Len(PaymentsRows(c)) + Len(ExtraRows(c))]
  /\ UNCHANGED <<serviceVars, charge_seq, job, clock, serverTz, deceased,
                 extra_charges, payments, charge_history, coffin_issue, runs,
                 edits, passes>>

\* UPDATE deceased SET total_mortuary_charge = ?, last_charge_update = ?,
\* balance = ? WHERE deceased_id = ?; then the next case of the list
writeTotals(r) ==
  /\ jobs[r].phase = "write"
  /\ LET c == jobs[r].list[jobs[r].pc].c
         last == jobs[r].pc = Len(jobs[r].list)
     IN /\ deceased' = [deceased EXCEPT ![c] =
             [@ EXCEPT !.total_mortuary_charge = Some(jobs[r].total),
                       !.last_charge_update = Some(jobs[r].now),
                       !.balance = Some(jobs[r].balance)]]
        /\ jobs' = [jobs EXCEPT ![r].pc = IF last THEN 0 ELSE @ + 1,
                                ![r].phase = IF last THEN "idle" ELSE "log",
                                ![r].written = @ \cup {<<c, jobs[r].seen>>}]
  /\ UNCHANGED <<serviceVars, charge_seq, job, clock, serverTz, extra_charges,
                 payments, charge_history, coffin_issue, runs, edits, passes>>

\* two runs that may overlap, with payments and extra charges recorded
\* meanwhile
registerDeceasedOverlap == Admit(MaxCases, ProfilesRun)

InitOverlap ==
  /\ LedgerEmpty
  /\ serverTz \in ServerZones
  /\ coffin_issue = << >>
  /\ ServicesIdle

NextOverlap ==
  \/ registerDeceasedOverlap
  \/ createPayment
  \/ addExtraCharge
  \/ \E r \in Runners : startRun(r) \/ logCharge(r) \/ readSources(r) \/ writeTotals(r)
  \/ TickRun

SpecOverlap == InitOverlap /\ [][NextOverlap]_vars

\* the timer alone, for as long as the server runs: the cron schedule starts
\* a run every five minutes, and the event loop takes every step of a run
timerRun ==
  /\ StartRun(1)
  /\ UNCHANGED <<serviceVars, charge_seq, job, clock, serverTz, deceased,
                 extra_charges, payments, charge_history, coffin_issue, runs,
                 edits, passes>>

\* a server whose zone is UTC
InitTimer ==
  /\ LedgerEmpty
  /\ serverTz = 0
  /\ coffin_issue = << >>
  /\ ServicesIdle

NextTimer ==
  \/ registerDeceasedOverlap
  \/ createPayment
  \/ addExtraCharge
  \/ timerRun
  \/ logCharge(1) \/ readSources(1) \/ writeTotals(1)
  \/ TickRun

SpecTimer ==
  /\ InitTimer /\ [][NextTimer]_vars
  /\ WF_vars(timerRun) /\ WF_vars(logCharge(1))
  /\ WF_vars(readSources(1)) /\ WF_vars(writeTotals(1))

\* --------------------------------------------------- createSystemInvoice
\* The handler in two steps: the SELECTs of the case and of its extra charges
\* with status != "Paid", from which the items are built; then, after the PDF
\* is written, the INSERT of the invoice and the UPDATE of the case's pending
\* charges.  An item is recorded by the id of its extra charge; the items
\* "Basic Mortuary Services" and "Embalming Services" are not extra charges,
\* and the column mortuary_charge is not part of the model (NULL).

NotPaid(e) == e.status # "Paid"

\* extraCharges = SELECT * FROM extra_charges WHERE deceased_id = ? AND status != "Paid"
invoiceRead ==
  /\ invoiceReq.pc = 0
  /\ Len(invoices) < MaxInvoices
  /\ \E c \in 1..Len(deceased) :
       LET rows == SelectSeq(extra_charges,
                             LAMBDA e : e.deceased_id = StrKey(c) /\ NotPaid(e))
       IN invoiceReq' = [pc |-> 1, c |-> c, items |-> rows]
  /\ UNCHANGED <<billingVars, invoices, printVars, stockVars, notifyVars>>

\* systemTotal: the embalming cost and the amounts of the charges read, or
\* the two default items (15000 + 5000) when there is no item at all
SystemTotal(d, rows) ==
  IF rows = << >> /\ Embalming(d) <= 0 THEN Money(20000)
  ELSE (IF Embalming(d) > 0 THEN Embalming(d) ELSE 0) + SumAmounts(rows)

\* UPDATE extra_charges SET status = "Invoiced" WHERE deceased_id = ? AND
\* status = "Pending"
MarkInvoiced(table, key) ==
  [i \in 1..Len(table) |->
     IF table[i].deceased_id = key /\ table[i].status = "Pending"
       THEN [table[i] EXCEPT !.status = "Invoiced"] ELSE table[i]]

\* INSERT INTO invoices; if (extraCharges.length > 0) UPDATE extra_charges
invoiceWrite ==
  /\ invoiceReq.pc = 1
  /\ LET c == invoiceReq.c
         rows == invoiceReq.items
     IN /\ invoices' = Append(invoices,
             [deceased_id |-> NumKey(c),
              items |-> [i \in 1..Len(rows) |-> rows[i].id],
              total_amount |-> SystemTotal(deceased[c], rows)])
        /\ extra_charges' =
             IF Len(rows) > 0 THEN MarkInvoiced(extra_charges, StrKey(c))
             ELSE extra_charges
  /\ invoiceReq' = InvoiceIdle
  /\ UNCHANGED <<clock, serverTz, deceased, payments, charge_history, coffin_issue,
                 runs, edits, passes, job, charge_seq, jobs, printVars, stockVars,
                 notifyVars>>

registerDeceasedInvoice == Admit(MaxCases, ProfilesRun)
addExtraChargeInvoice == AddCharge(MaxExtraInv)
updateExtraChargeInvoice == EditCharge(MaxEditsInv)
deleteExtraChargeInvoice == DeleteCharge(MaxEditsInv)

InitInvoice ==
  /\ LedgerEmpty
  /\ serverTz = 0
  /\ coffin_issue = << >>
  /\ ServicesIdle

NextInvoice ==
  \/ registerDeceasedInvoice
  \/ addExtraChargeInvoice
  \/ updateExtraChargeInvoice
  \/ deleteExtraChargeInvoice
  \/ invoiceRead
  \/ invoiceWrite

SpecInvoice == InitInvoice /\ [][NextInvoice]_vars

\* ---------------------------------------------------------- print service
\* const MAX_CONCURRENT_PRINTS = 3
MAX_CONCURRENT_PRINTS == 3

Min(a, b) == IF a < b THEN a ELSE b

\* a variant that never counts the jobs already running
FreeSlotsIgnoringActive(active) == MAX_CONCURRENT_PRINTS

\* how many more jobs the loop of processQueue may start:
\* while (activeJobs < MAX_CONCURRENT_PRINTS && ...)
FreeSlots(active) ==
  IF active < MAX_CONCURRENT_PRINTS THEN MAX_CONCURRENT_PRINTS - active ELSE 0

\* a variant that gives the slot back only when the job succeeded
ReleaseOnSuccess(active, outcome) ==
  IF outcome = "resolved" THEN active - 1 ELSE active

\* .finally(() => { activeJobs--; ... }): whatever the outcome of the job
Release(active, outcome) == active - 1

\* handlePrintJob: a standard or thermal job prints or fails; a job of any
\* other type throws
Outcomes(pj) ==
  IF pj.type \in {"standard", "thermal"} THEN {"resolved", "rejected"}
  ELSE {"rejected"}

\* processQueue on queue q with `active` jobs running: the loop has no await,
\* so it starts jobs from the head of the queue until no slot is free or the
\* queue is empty, in one turn of the event loop
processQueue(q, active) ==
  LET k == Min(Len(q), FreeSlots(active)) IN
  /\ printQueue' = SubSeq(q, k + 1, Len(q))
  /\ activeJobs' = active + k
  /\ printing' = printing \cup {q[i] : i \in 1..k}
  /\ started' = started \o [i \in 1..k |-> q[i].id]

\* enqueueJob: printQueue.push(job); processQueue()
enqueueJob(type) ==
  /\ job_seq < MaxPrintJobs
  /\ LET pj == [id |-> job_seq + 1, type |-> type] IN
       /\ processQueue(Append(printQueue, pj), activeJobs)
       /\ held' = IF FreeSlots(activeJobs) <= Len(printQueue)
                    THEN held \cup {pj.id} ELSE held
  /\ job_seq' = job_seq + 1
  /\ UNCHANGED <<billingVars, invoiceVars, immediates, stockVars, notifyVars>>

queueStandardPrint == enqueueJob("standard")
queueThermalPrint == enqueueJob("thermal")

\* the promise of a running job settles: .then or .catch logs, .finally
\* gives the slot back and schedules processQueue with setImmediate
settleJob ==
  /\ \E pj \in printing : \E outcome \in Outcomes(pj) :
       /\ printing' = printing \ {pj}
       /\ activeJobs' = Release(activeJobs, outcome)
  /\ immediates' = immediates + 1
  /\ UNCHANGED <<billingVars, invoiceVars, printQueue, job_seq, started, held,
                 stockVars, notifyVars>>

\* a callback scheduled by setImmediate(processQueue) runs
runImmediate ==
  /\ immediates > 0
  /\ immediates' = immediates - 1
  /\ processQueue(printQueue, activeJobs)
  /\ UNCHANGED <<billingVars, invoiceVars, job_seq, held, stockVars, notifyVars>>

InitPrint ==
  /\ LedgerEmpty
  /\ serverTz = 0
  /\ coffin_issue = << >>
  /\ ServicesIdle

NextPrint ==
  \/ queueStandardPrint
  \/ queueThermalPrint
  \/ settleJob
  \/ runImmediate

\* every running job terminates, and the event loop runs the callbacks it
\* was given
SpecPrint ==
  /\ InitPrint /\ [][NextPrint]_vars
  /\ WF_vars(settleJob) /\ WF_vars(runImmediate)

\* ----------------------------------------------------------- assignCoffin
\* The handler opens a transaction on a connection of its own
\* (getConnection, beginTransaction) but sends every statement through
\* safeQuery(sql, params), which takes no connection and runs the statement
\* on the pool: each statement is committed on its own, the lock of SELECT
\* ... FOR UPDATE ends with that statement, and the requests interleave
\* between the statements.  coffins.quantity is a signed integer.

\* SELECT quantity ... FOR UPDATE; if (coffin.quantity <= 0) 400
assignSelect(r) ==
  /\ assignReq[r].pc = 0
  /\ \E c \in 1..Len(deceased) :
       assignReq' = [assignReq EXCEPT ![r] =
         [pc |-> IF coffins <= 0 THEN 4 ELSE 1, c |-> c, quantity |-> coffins]]
  /\ UNCHANGED <<billingVars, invoiceVars, printVars, coffins, deceased_coffin,
                 notifyVars>>

\* INSERT INTO deceased_coffin (deceased_id, coffin_id, ..., rfid): the rfid
\* is generateRFID(deceased_name), 'RFID-<name>-<Date.now()>'
assignInsert(r) ==
  /\ assignReq[r].pc = 1
  /\ deceased_coffin' = Append(deceased_coffin,
        [deceased_id |-> StrKey(assignReq[r].c), coffin_id |-> 1,
         rfid |-> <<"RFID", assignReq[r].c>>])
  /\ assignReq' = [assignReq EXCEPT ![r].pc = 2]
  /\ UNCHANGED <<billingVars, invoiceVars, printVars, coffins, notifyVars>>

\* UPDATE coffins SET quantity = quantity - 1; commit; 201
assignUpdate(r) ==
  /\ assignReq[r].pc = 2
  /\ coffins' = coffins - 1
  /\ assignReq' = [assignReq EXCEPT ![r].pc = 3]
  /\ UNCHANGED <<billingVars, invoiceVars, printVars, deceased_coffin, notifyVars>>

registerDeceasedStock == Admit(MaxCases, ProfilesRun)

InitStock ==
  /\ LedgerEmpty
  /\ serverTz = 0
  /\ coffin_issue = << >>
  /\ InvoicesEmpty /\ PrinterIdle /\ StockIdle(StockOnHand) /\ NotifierIdle

NextStock ==
  \/ registerDeceasedStock
  \/ \E r \in Requests : assignSelect(r) \/ assignInsert(r) \/ assignUpdate(r)
  \/ updateMortuaryCharges
  \/ TickRun

SpecStock == InitStock /\ [][NextStock]_vars

\* ------------------------------------------------------ pollNotifications
\* A row of notifications is its position in the table (its id) and its
\* created_at, a zone-less reading with a resolution of one second.  The
\* rows are inserted by code outside these sources, at the current time.

\* a notification is recorded
insertNotification ==
  /\ Len(notifications) < MaxNotifications
  /\ notifications' = Append(notifications,
        [id |-> Len(notifications) + 1, created_at |-> getKenyaTimeISO(clock)])
  /\ emitted' = Append(emitted, 0)
  /\ UNCHANGED <<billingVars, invoiceVars, printVars, stockVars,
                 lastNotificationTime, polls>>

\* setInterval(() => pollNotifications(io), 5000): a poll starts, whether or
\* not an earlier one has returned; timestamp is
\* lastNotificationTime.toISOString().slice(0, 19).replace('T', ' ')
pollStart(p) ==
  /\ polls[p].pc = 0
  /\ polls' = [polls EXCEPT ![p] =
        [pc |-> 1, timestamp |-> toISOString(lastNotificationTime), rows |-> << >>]]
  /\ UNCHANGED <<billingVars, invoiceVars, printVars, stockVars, notifications,
                 lastNotificationTime, emitted>>

\* SELECT * FROM notifications WHERE created_at > '<timestamp>' ORDER BY
\* created_at ASC, as the database executes it
pollQuery(p) ==
  /\ polls[p].pc = 1
  /\ polls' = [polls EXCEPT ![p].pc = 2,
                            ![p].rows = SelectSeq(notifications,
                               LAMBDA n : n.created_at > polls[p].timestamp)]
  /\ UNCHANGED <<billingVars, invoiceVars, printVars, stockVars, notifications,
                 lastNotificationTime, emitted>>

\* emitted counts up to 2: once, or more than once
CountEmit(n) == IF n < 2 THEN n + 1 ELSE n

\* the rows arrive: lastNotificationTime = new Date(<last row>.created_at),
\* and io.emit('notification', row) for each row
pollEmit(p) ==
  /\ polls[p].pc = 2
  /\ LET rows == polls[p].rows
         ids == {rows[i].id : i \in 1..Len(rows)}
     IN /\ lastNotificationTime' =
             IF Len(rows) > 0 THEN ParseLocal(rows[Len(rows)].created_at)
             ELSE lastNotificationTime
        /\ emitted' = [i \in 1..Len(emitted) |->
                         IF i \in ids THEN CountEmit(emitted[i]) ELSE emitted[i]]
  /\ polls' = [polls EXCEPT ![p] = PollIdle]
  /\ UNCHANGED <<billingVars, invoiceVars, printVars, stockVars, notifications>>

\* the seconds of the runs below
InstantsNotify == 0..MaxNotifySeconds
TickNotify == TickTo(InstantsNotify)

\* a server whose zone is UTC, started on an empty notifications table
InitNotify ==
  /\ LedgerEmpty
  /\ serverTz = 0
  /\ coffin_issue = << >>
  /\ ServicesIdle

NextNotify ==
  \/ insertNotification
  \/ \E p \in Polls : pollStart(p) \/ pollQuery(p) \/ pollEmit(p)
  \/ TickNotify

\* the interval timer keeps starting polls, and the database answers
SpecNotify ==
  /\ InitNotify /\ [][NextNotify]_vars
  /\ WF_vars(\E p \in Polls : pollStart(p))
  /\ \A p \in Polls : WF_vars(pollQuery(p)) /\ WF_vars(pollEmit(p))

\* =================================================================== claims
\* A stored date is a zone-less reading of the Nairobi clock (getKenyaTimeISO);
\* this is the instant it denotes.
InstantOf(w) == w - KenyaOffset

\* the instant a case was admitted (date_admitted, else created_at)
AdmittedAt(d) ==
  IF d.date_admitted # NULLN THEN InstantOf(Val(d.date_admitted))
  ELSE InstantOf(Val(d.created_at))

Max0(x) == IF x > 0 THEN x ELSE 0

\* the daily rate as the specification resolves it
DailyRate(d) ==
  IF d.currency = "USD"
    THEN (IF d.usd_charge_rate = NULLN THEN 130 ELSE Val(d.usd_charge_rate))
    ELSE IF d.rate_category = "premium" THEN 5000 ELSE 3000

\* the sum of the amounts of the rows with index in I
RECURSIVE SumIdx(_, _)
SumIdx(rows, I) ==
  IF I = {} THEN 0
  ELSE LET i == CHOOSE j \in I : TRUE IN rows[i].amount + SumIdx(rows, I \ {i})

\* every payment recorded for case c, under either of its identifiers
RecordedPayments(c) ==
  SumIdx(payments, {i \in 1..Len(payments) :
                      payments[i].deceased_id \in {NumKey(c), StrKey(c)}})

\* the extra charges of case c that are not cancelled
ActiveExtras(c) ==
  SumIdx(extra_charges, {i \in 1..Len(extra_charges) :
                           /\ extra_charges[i].deceased_id = StrKey(c)
                           /\ extra_charges[i].status # "Cancelled"})

\* a step of the job, and the cases it processes
PassStep == runs' = runs + 1
Processed(c) == c \in 1..Len(deceased) /\ Eligible(deceased[c])
Cases == 1..Len(deceased)

\* C1: after every reconciliation pass over a case, the stored balance equals
\* the stored total_mortuary_charge minus the sum of all payments recorded
\* for that case.
C1_BalanceIdentity ==
  [][PassStep =>
       \A c \in Cases : Processed(c) =>
         Val(deceased'[c].balance)
           = Val(deceased'[c].total_mortuary_charge) - RecordedPayments(c)]_vars

\* a KES case on the standard rate with no coffin, extra charge or embalming
PlainStandardCase(c) ==
  /\ deceased[c].currency = "KES"
  /\ deceased[c].rate_category = "standard"
  /\ deceased[c].embalming_cost = NULLN
  /\ \A i \in 1..Len(extra_charges) : extra_charges[i].deceased_id # StrKey(c)
  /\ \A i \in 1..Len(coffin_issue) : coffin_issue[i].rfid # StrKey(c)

\* C2: a plain standard KES case reconciled two days after admission stores
\* total 6000 and balance 6000; once a payment of 2000 is recorded, a pass at
\* the same instant stores total 6000 and balance 4000 (every recorded payment
\* is subtracted by the next pass).
C2_PaymentScenario ==
  [][PassStep =>
       \A c \in Cases :
         (Processed(c) /\ PlainStandardCase(c)
            /\ clock = AdmittedAt(deceased[c]) + 2 * DayLen) =>
           /\ Val(deceased'[c].total_mortuary_charge) = Money(6000)
           /\ Val(deceased'[c].balance) = Money(6000) - RecordedPayments(c)]_vars

\* C3: the total a pass stores is the storage charge accrued since admission
\* plus coffin charges plus the non-cancelled extra charges plus the
\* embalming cost (0 when unset), and nothing else.
C3_TotalComposition ==
  [][PassStep =>
       \A c \in Cases : Processed(c) =>
         Val(deceased'[c].total_mortuary_charge)
           = DailyRate(deceased[c]) * Max0(clock - AdmittedAt(deceased[c]))
             + CoffinCharges(CoffinRows(c), Cur(deceased[c]))
             + ActiveExtras(c)
             + (IF deceased[c].embalming_cost = NULLN THEN 0
                ELSE Val(deceased[c].embalming_cost))]_vars

\* C4: two passes in succession with no request in between leave the coffin,
\* extra-charge and payment components unchanged; the total grows only by the
\* storage accrued over the time between the passes.
C4_Idempotence ==
  [][(PassStep /\ passes # << >>) =>
       \A c \in Cases : Processed(c) =>
         LET d == deceased[c]
             gap == clock - passes[Len(passes)]
             t1 == Val(d.total_mortuary_charge)
             t2 == Val(deceased'[c].total_mortuary_charge)
             b1 == Val(d.balance)
             b2 == Val(deceased'[c].balance)
         IN /\ 0 <= t2 - t1
            /\ t2 - t1 <= DailyRate(d) * gap
            /\ passes[Len(passes)] >= AdmissionDate(d) => t2 - t1 = DailyRate(d) * gap
            /\ t2 - b2 = t1 - b1]_vars

\* witness of C4: the job ran twice, some time apart, over a case that has a
\* coffin, an extra charge and a payment, with no request in between
C4_Witness ==
  /\ Len(passes) = 2 /\ passes[2] > passes[1]
  /\ \E c \in Cases :
       /\ Processed(c)
       /\ CoffinRows(c) # << >> /\ ExtraRows(c) # << >> /\ PaymentsRows(c) # << >>
       /\ Val(deceased[c].total_mortuary_charge) > Val(deceased[c].balance)

\* C5: an extra charge with status cancelled contributes nothing to the total
\* and balance a pass stores: what the total holds beyond storage, coffin and
\* embalming is the sum of the non-cancelled extra charges.
C5_CancelledExcluded ==
  [][PassStep =>
       \A c \in Cases : Processed(c) =>
         LET d == deceased[c]
             others == TotalStorageCharge(d, clock)
                         + CoffinCharges(CoffinRows(c), Cur(d)) + Embalming(d)
         IN /\ Val(deceased'[c].total_mortuary_charge) - others = ActiveExtras(c)
            /\ Val(deceased'[c].balance) + SumAmounts(PaymentsRows(c)) - others
                 = ActiveExtras(c)]_vars

\* witness of C5: a case reconciled while it has a cancelled extra charge of
\* 500 and nothing else beyond storage
C5_Witness ==
  /\ passes # << >> /\ passes[Len(passes)] = clock
  /\ \E c \in Cases :
       /\ Processed(c)
       /\ \E i \in 1..Len(extra_charges) :
            /\ extra_charges[i].deceased_id = StrKey(c)
            /\ extra_charges[i].status = "Cancelled"
            /\ extra_charges[i].amount = Money(500)
       /\ deceased[c].total_mortuary_charge
            = Some(TotalStorageCharge(deceased[c], clock)
                     + CoffinCharges(CoffinRows(c), Cur(deceased[c]))
                     + Embalming(deceased[c]))

\* the aggregates of the read handlers with the cancelled rows left out
ActiveExtrasDistinctById(c) ==
  LET amounts == {extra_charges[i].amount : i \in
                    {j \in 1..Len(extra_charges) :
                       /\ extra_charges[j].deceased_id = NumKey(c)
                       /\ extra_charges[j].status # "Cancelled"}}
  IN SumSet(amounts)

\* C6: every extra-charge total, total-charges figure and balance the program
\* computes for a case leaves out the extra charges with status cancelled.
C6_CancelledExcludedEverywhere ==
  \A c \in Cases :
    /\ getDeceasedFinancialDetails(c).extra_charges = ActiveExtras(c)
    /\ getDeceasedFinancialDetails(c).total_charges
         = getDeceasedFinancialDetails(c).mortuary_charges + ActiveExtras(c)
    /\ getDeceasedFinancialDetails(c).balance
         = getDeceasedFinancialDetails(c).mortuary_charges + ActiveExtras(c)
             - getDeceasedFinancialDetails(c).total_payments
    /\ getAllDeceasedWithFinancials(c).total_extra_charges = ActiveExtrasDistinctById(c)
    /\ getDeceasedById(c).extra_charges = ActiveExtras(c)
    /\ getDeceasedById(c).total_charges
         = getDeceasedById(c).cold_room_charges + ActiveExtras(c)
    /\ getDeceasedById(c).balance
         = getDeceasedById(c).cold_room_charges + ActiveExtras(c)
             - getDeceasedById(c).total_payments

\* C7: the storage charge for an interval is the daily rate times the
\* untruncated number of days max(0, asOf - start): 0 when asOf <= start,
\* never negative.
C7_Accrual ==
  \A c \in Cases :
    LET d == deceased[c]
        Charge(start) == IF clock <= start THEN 0 ELSE (clock - start) * BaseRate(d)
    IN /\ TotalStorageCharge(d, clock) = Charge(AdmissionDate(d))
       /\ IncrementalCharge(d, clock) = Charge(LastUpdate(d))
       /\ TotalStorageCharge(d, clock) >= 0
       /\ IncrementalCharge(d, clock) >= 0

\* witness of C7: a pass 1.5 days after the admission date it read stored 1.5
\* times the daily rate
C7_Witness ==
  /\ passes # << >> /\ passes[Len(passes)] = clock
  /\ \E c \in Cases :
       /\ Processed(c)
       /\ clock - AdmissionDate(deceased[c]) = 3 * HalfDay
       /\ 2 * Val(deceased[c].total_mortuary_charge)
            = 3 * Money(BaseRate(deceased[c]))

\* C8: a case's stored total_mortuary_charge is never negative.
C8_TotalNonNegative ==
  \A c \in Cases :
    deceased[c].total_mortuary_charge # NULLN =>
      Val(deceased[c].total_mortuary_charge) >= 0

\* a case with no coffin, extra charge or embalming
NoOtherCharges(c) ==
  /\ deceased[c].embalming_cost = NULLN
  /\ \A i \in 1..Len(extra_charges) : extra_charges[i].deceased_id # StrKey(c)
  /\ \A i \in 1..Len(coffin_issue) : coffin_issue[i].rfid # StrKey(c)

\* C9: the daily rate is the stored usd rate (130 when unset) for a USD case,
\* else 5000 for premium and 3000 otherwise, a missing currency being KES; a
\* USD case at 130 reconciled 1.5 days after admission with no other charges
\* has total 195.
C9_DailyRate ==
  [][PassStep =>
       \A c \in Cases : Processed(c) =>
         /\ BaseRate(deceased[c]) = DailyRate(deceased[c])
         /\ (/\ deceased[c].currency = "USD"
             /\ DailyRate(deceased[c]) = 130
             /\ NoOtherCharges(c)
             /\ clock = AdmittedAt(deceased[c]) + 3 * HalfDay)
            => Val(deceased'[c].total_mortuary_charge) = Money(195)]_vars

\* the storage accrued since the case's last_charge_update (created_at before
\* the first pass)
AccruedSinceLastUpdate(d) ==
  DailyRate(d) * Max0(clock - (IF d.last_charge_update # NULLN
                                 THEN InstantOf(Val(d.last_charge_update))
                                 ELSE InstantOf(Val(d.created_at))))

\* the daily_storage entries a pass owes, case by case
RECURSIVE EntriesOwed(_)
EntriesOwed(c) ==
  IF c > Len(deceased) THEN << >>
  ELSE (IF Processed(c) /\ AccruedSinceLastUpdate(deceased[c]) > Money(1) \div 100
          THEN << [deceased_id |-> StrKey(c), charge_type |-> "daily_storage",
                   amount |-> AccruedSinceLastUpdate(deceased[c]),
                   currency |-> Cur(deceased[c])] >>
          ELSE << >>)
       \o EntriesOwed(c + 1)

\* C10: a pass appends, for each processed case, exactly one daily_storage
\* entry carrying the storage accrued since last_charge_update when that
\* amount exceeds 0.01, and none otherwise.
C10_AuditThreshold ==
  [][PassStep => charge_history' = charge_history \o EntriesOwed(1)]_vars

\* C11: charge history is append-only: every step leaves the entries already
\* written in place and unchanged, so the history only grows.
C11_HistoryAppendOnly ==
  [][/\ Len(charge_history') >= Len(charge_history)
     /\ SubSeq(charge_history', 1, Len(charge_history)) = charge_history]_vars

\* witness of C11: two passes have each appended an entry
C11_Witness == runs = 2 /\ Len(charge_history) >= 2

\* C12: payments are append-only: no step updates or deletes a recorded
\* payment, and for every case the sum of its payments never decreases.
C12_PaymentsAppendOnly ==
  [][/\ Len(payments') >= Len(payments)
     /\ SubSeq(payments', 1, Len(payments)) = payments
     /\ \A c \in Cases :
          SumIdx(payments', {i \in 1..Len(payments') :
                              payments'[i].deceased_id \in {NumKey(c), StrKey(c)}})
            >= RecordedPayments(c)]_vars

\* C13: only the reconciliation job changes a case's last_charge_update,
\* total_mortuary_charge and balance: every other step leaves them unchanged.
C13_OnlyJobMutatesTotals ==
  [][~PassStep =>
       \A c \in Cases :
         /\ deceased'[c].last_charge_update = deceased[c].last_charge_update
         /\ deceased'[c].total_mortuary_charge = deceased[c].total_mortuary_charge
         /\ deceased'[c].balance = deceased[c].balance]_vars

\* C15: in every state reached after a reconciliation pass, a case's
\* last_charge_update is not before its admission date.
C15_LastUpdateAfterAdmission ==
  \A c \in Cases :
    (runs > 0 /\ deceased[c].last_charge_update # NULLN) =>
      InstantOf(Val(deceased[c].last_charge_update)) >= AdmittedAt(deceased[c])

\* ------------------------------------------- claims about a run, case by case
\* the steps of a run: its start, the processing of one case, its end
StartStep == job.pc = 0 /\ runs' = runs + 1
CaseStep == job.pc # 0 /\ job' # job
EndStep == (StartStep \/ CaseStep) /\ job'.pc = 0
CurrentCase == job.list[job.pc].c
CurrentRow == job.list[job.pc].d
Listed(j) == {j.list[i].c : i \in 1..Len(j.list)}

\* the history entries of case c
HistoryOf(h, c) == SelectSeq(h, LAMBDA e : e.deceased_id = StrKey(c))

\* C14: no step of a pass changes the total, balance or last_charge_update of
\* a case whose status is complete or appends a history entry for it; every
\* case whose status is not complete is selected by each pass, and each pass
\* has processed every case it selected when it ends.
C14_TerminalExcluded ==
  [][/\ CaseStep =>
          \A c \in Cases : deceased[c].status = "Complete" =>
            /\ deceased'[c] = deceased[c]
            /\ HistoryOf(charge_history', c) = HistoryOf(charge_history, c)
     /\ StartStep =>
          \A c \in Cases : deceased[c].status # "Complete" => c \in Listed(job')
     /\ EndStep => Listed(job') \subseteq job'.done]_vars

\* C16: when the processing of one case fails, every other case the run
\* selected is still reconciled in that run: a run that has ended has
\* reconciled every selected case except those whose own processing failed.
C16_FailureIsolation ==
  job.pc = 0 => Listed(job) \subseteq (job.done \cup job.failed)

\* C17: when the history insert for a case fails, the case's total, balance and
\* last_charge_update are still written by the same pass.
C17_AuditFailureDoesNotBlock ==
  [][(CaseStep /\ job'.fault = "history") =>
       /\ deceased'[CurrentCase].last_charge_update = Some(job.now)
       /\ deceased'[CurrentCase].total_mortuary_charge # NULLN
       /\ deceased'[CurrentCase].balance # NULLN]_vars

\* the coffin rows of a case whose price is a number
ValidRows(c, cur) == SelectSeq(CoffinRows(c), LAMBDA r : ~PriceIsNaN(r, cur))

\* C18: a missing amount on a source row counts as 0: unless a query fails,
\* the pass writes for the case a total equal to storage plus the coffin rows
\* with a valid price plus extra charges plus embalming, and the balance that
\* follows from it.
C18_DirtyDataTolerance ==
  [][(CaseStep /\ job'.fault \notin {"history", "later"}) =>
       LET c == CurrentCase
           d == CurrentRow
           total == TotalStorageCharge(d, clock)
                      + CoffinCharges(ValidRows(c, Cur(d)), Cur(d))
                      + ActiveExtras(c) + Embalming(d)
       IN /\ deceased'[c].total_mortuary_charge = Some(total)
          /\ deceased'[c].balance = Some(total - SumAmounts(PaymentsRows(c)))]_vars

\* convert(amount, from, to, rate): unchanged within one currency, KES to USD
\* divides by the rate, USD to KES multiplies by it
ConvertPrice(amount, from, to, rate) ==
  IF from = to THEN amount
  ELSE IF from = "KES" THEN amount \div rate
  ELSE amount * rate

\* the unit price of a coffin row, in the coffin's currency
UnitPrice(row) ==
  IF row.coffin_currency = "KES" THEN Val(row.exact_price) ELSE Val(row.price_usd)

\* the coffin component the stored total of a reconciled case holds
CoffinComponent(c, d, total) ==
  Val(total) - TotalStorageCharge(d, clock) - ActiveExtras(c) - Embalming(d)

\* the coffin component as the conversion contract gives it
RECURSIVE ConvertedSum(_, _)
ConvertedSum(rows, cur) ==
  IF rows = << >> THEN 0
  ELSE ConvertPrice(UnitPrice(Head(rows)), Head(rows).coffin_currency, cur,
                    Head(rows).exchange_rate) * Head(rows).quantity
       + ConvertedSum(Tail(rows), cur)

\* the same, with every conversion at a non-positive rate rejected and the
\* coffin's component skipped
RECURSIVE RejectingSum(_, _)
RejectingSum(rows, cur) ==
  IF rows = << >> THEN 0
  ELSE (IF Head(rows).coffin_currency # cur /\ Head(rows).exchange_rate <= 0
          THEN 0
          ELSE ConvertPrice(UnitPrice(Head(rows)), Head(rows).coffin_currency, cur,
                            Head(rows).exchange_rate) * Head(rows).quantity)
       + RejectingSum(Tail(rows), cur)

\* C19: a conversion at a non-positive rate never takes place: the coffin
\* component of the total a pass stores leaves out every coffin whose price
\* would have to be converted at a rate that is zero or negative.
C19_InvalidRateRejected ==
  [][(CaseStep /\ CurrentCase \in job'.done) =>
       CoffinComponent(CurrentCase, CurrentRow,
                       deceased'[CurrentCase].total_mortuary_charge)
         = RejectingSum(CoffinRows(CurrentCase), Cur(CurrentRow))]_vars

\* C20: for coffin rows with a valid (positive) rate, the coffin component of
\* the total a pass stores is the sum over the case's coffin rows of the unit
\* price converted into the case's currency times the quantity.
C20_CoffinConversion ==
  [][(CaseStep /\ CurrentCase \in job'.done) =>
       LET rows == CoffinRows(CurrentCase) IN
         (\A i \in 1..Len(rows) : rows[i].exchange_rate > 0) =>
           CoffinComponent(CurrentCase, CurrentRow,
                           deceased'[CurrentCase].total_mortuary_charge)
             = ConvertedSum(rows, Cur(CurrentRow))]_vars

\* witness of C20: a run has reconciled a case with two coffins at a positive
\* rate, one of them priced in the other currency, and stored their charge
C20_Witness ==
  \E c \in job.done :
    LET rows == CoffinRows(c)
        cur == Cur(deceased[c])
    IN /\ Len(rows) = 2
       /\ \A i \in 1..Len(rows) : rows[i].exchange_rate > 0
       /\ \E i \in 1..Len(rows) : rows[i].coffin_currency # cur
       /\ deceased[c].total_mortuary_charge # NULLN
       /\ Val(deceased[c].total_mortuary_charge) >= ConvertedSum(rows, cur)
       /\ ConvertedSum(rows, cur) > 0

\* C21: if a payment or extra charge is recorded for an open case, possibly
\* while a pass is running, and no further change follows, then under a fair
\* timer the stored balance eventually equals, and stays equal to, the stored
\* total minus all recorded payments of the case.
C21_Convergence ==
  <>[](\A c \in Cases : Eligible(deceased[c]) =>
         /\ deceased[c].balance # NULLN
         /\ Val(deceased[c].balance)
              = Val(deceased[c].total_mortuary_charge) - RecordedPayments(c))

\* the run whose step this is writes case c from sources it read at version n
WritesCase(r, c, n) ==
  /\ jobs[r].phase = "write" /\ jobs'[r].phase # "write"
  /\ jobs[r].list[jobs[r].pc].c = c
  /\ jobs[r].seen = n

\* C22: when two runs that process the same case overlap, a later write never
\* overwrites totals with totals computed from older source data: a run that
\* writes a case has read every payment and charge the other run had read
\* when it wrote the case.
C22_NoLostUpdate ==
  [][\A r \in Runners, c \in Cases, n \in 0..(MaxPayments + MaxExtra) :
       WritesCase(r, c, n) =>
         \A o \in Runners \ {r} : \A w \in jobs[o].written : w[1] = c => w[2] <= n]_vars

\* C23: once an extra charge has status paid, no operation changes its
\* amount, its status or any other field, or removes it.
C23_PaidImmutable ==
  [][\A i \in 1..Len(extra_charges) :
       extra_charges[i].status = "Paid" =>
         \E j \in 1..Len(extra_charges') : extra_charges'[j] = extra_charges[i]]_vars

\* the ids of the items of the invoice a step of createSystemInvoice inserts
InvoiceStep == invoiceReq.pc = 1 /\ invoiceReq'.pc = 0
ItemIds == {invoiceReq.items[i].id : i \in 1..Len(invoiceReq.items)}

\* C24: when createSystemInvoice completes, every extra charge that is an
\* item of the invoice has status invoiced, and an extra charge that is not
\* an item of the invoice is not moved to invoiced by it.
C24_InvoicingTransition ==
  [][InvoiceStep =>
       \A j \in 1..Len(extra_charges') :
         LET e == extra_charges'[j] IN
           /\ e.id \in ItemIds => e.status = "Invoiced"
           /\ e.id \notin ItemIds => e = extra_charges[j]]_vars

Started == {started[i] : i \in 1..Len(started)}

\* jobs are started in the order they were enqueued, each once, and a job
\* that was enqueued is either waiting or started
FifoOnce ==
  /\ started = [i \in 1..Len(started) |-> i]
  /\ [i \in 1..Len(printQueue) |-> printQueue[i].id]
       = [i \in 1..Len(printQueue) |-> Len(started) + i]
  /\ Len(started) + Len(printQueue) = job_seq

\* a job enqueued while three jobs are running stays in the queue
HeldWhenFull ==
  (job_seq' = job_seq + 1 /\ activeJobs = 3) =>
     /\ printQueue' = Append(printQueue, printQueue'[Len(printQueue')])
     /\ printQueue'[Len(printQueue')].id = job_seq'
     /\ started' = started

LoggedStorage(c) ==
  SumIdx(charge_history, {i \in 1..Len(charge_history) :
                            /\ charge_history[i].deceased_id = StrKey(c)
                            /\ charge_history[i].charge_type = "daily_storage"})

\* C27: for every case, along every execution (passes that abort after the
\* history entry was written included), the sum of the amounts of its
\* daily_storage history entries never exceeds the storage charge accrued
\* since the start of accrual: no accrual is logged twice.
C27_NoDoubleLogging ==
  \A c \in Cases :
    LoggedStorage(c) <= DailyRate(deceased[c]) * Max0(clock - AdmittedAt(deceased[c]))

\* the coffin on offer as the job would read it once issued to a case
AssignedCoffin == [KesCoffin EXCEPT !.quantity = 1]

\* the assignments recorded for case c by requests that were answered 201
Assigned(c) ==
  {r \in Requests : assignReq[r].pc = 3 /\ assignReq[r].c = c}

\* C28: after assignCoffin has recorded a coffin assignment for an open case,
\* the next pass over the case includes the coffin's converted price in the
\* total and the balance it stores.
C28_AssignmentReachesBill ==
  [][PassStep =>
       \A c \in Cases : Processed(c) =>
         LET d == deceased[c]
             coffin == Cardinality(Assigned(c)) * CoffinPrice(AssignedCoffin, Cur(d))
             total == TotalStorageCharge(d, clock) + coffin + SumAmounts(ExtraRows(c))
                        + Embalming(d)
         IN /\ Val(deceased'[c].total_mortuary_charge) = total
            /\ Val(deceased'[c].balance) = total - SumAmounts(PaymentsRows(c))]_vars

\* a request is answered 400, out of stock
RejectStep(r) == assignReq[r].pc = 0 /\ assignReq'[r].pc = 4

\* C29: after any interleaving of assignCoffin requests for the same coffin
\* its quantity is >= 0 and the assignments recorded do not exceed the stock
\* there was; a request that finds quantity <= 0 is rejected and changes
\* neither the assignments nor the quantity.
C29_StockNeverNegative ==
  /\ [](coffins >= 0 /\ Len(deceased_coffin) <= StockOnHand)
  /\ [][\A r \in Requests : RejectStep(r) =>
          /\ coffins <= 0
          /\ coffins' = coffins /\ deceased_coffin' = deceased_coffin]_vars

\* C30: every row inserted into notifications after startup is eventually
\* broadcast by pollNotifications and none is broadcast twice, even when
\* polls overlap or several rows share the created_at of the last one
\* broadcast; lastNotificationTime never moves backwards.
C30_ExactlyOnce ==
  /\ \A n \in 1..MaxNotifications :
       (n <= Len(notifications)) ~> (n <= Len(emitted) /\ emitted[n] >= 1)
  /\ [](\A n \in 1..Len(emitted) : emitted[n] <= 1)
  /\ [][lastNotificationTime' >= lastNotificationTime]_vars
====
